---- MODULE Spec2Model ----
(***************************************************************************)
(* Model of the DeepSeek RAG application.                                  *)
(*                                                                         *)
(*   - the HTTP API (src/backend/app/main.py): the process-wide            *)
(*     document_store, the request handlers and the background task        *)
(*     process_document, scheduled on one asyncio event loop;              *)
(*   - the Streamlit front-end (src/app.py): st.session_state and the      *)
(*     script runs that user actions and st.rerun() start;                  *)
(*   - the input normalisation shim format_inputs, the answer extraction    *)
(*     and the reasoning split, each applied alone.                         *)
(*                                                                         *)
(* Python values are modelled as follows: None is the empty tuple, a       *)
(* string that the code inspects (a filename) is a tuple of characters, a  *)
(* message is a tuple of text pieces, a dict is a function from keys to    *)
(* values, an object created by a build (chain, formatter) is a record     *)
(* carrying the number of the upload whose build created it.               *)
(***************************************************************************)
EXTENDS Integers, Sequences, FiniteSets, Bags, TLC

VARIABLES
    document_store,   \* main.py:43  session_id -> session dict
    reading,          \* the upload_document calls suspended at
                      \* `await file.read()` (main.py:197): a bag of
                      \* [session_id, filename]
    tasks,            \* background tasks added by upload_document, with the
                      \* position of each process_document call
    uploads,          \* number of uploads accepted so far (names the temp file
                      \* and the objects built from it)
    latest,           \* session_id -> number of its most recently accepted upload
    external_calls,   \* calls made to the external collaborators since the
                      \* most recent build started: <<upload, step>>
    resp,             \* the response given by the last step, NoResponse
                      \* after a step of a background task
    program,          \* the program this behaviour runs: "api" (main.py),
                      \* "ui" (app.py), or "fn" (one function applied alone)
    session_state,    \* app.py: st.session_state, a dict
    widgets,          \* app.py: the values the user gave the sidebar widgets
    script,           \* app.py: position and form input of the current script
                      \* run, whether st.rerun() was called, pipeline calls made,
                      \* whether st.rerun() started the run and the session
                      \* state, the log apart, the run started with
    fn_in,            \* the function applied alone and its argument
    fn_out            \* its result

api_vars == <<document_store, reading, tasks, uploads, latest, external_calls, resp>>
ui_vars == <<session_state, widgets, script>>
fn_vars == <<fn_in, fn_out>>

vars == <<api_vars, ui_vars, fn_vars, program>>

----------------------------------------------------------------------------
(* Bounds *)

MaxUploads == 2

(* Values *)

None == <<>>

SessionIds == {"s1", "s2"}

\* session_id: str = Query(None); None and "" are both falsy (main.py:187)
NoSessionId == ""

PdfName == <<"a", ".", "p", "d", "f">>
UpperPdfName == <<"B", ".", "P", "D", "F">>
TxtName == <<"n", ".", "t", "x", "t">>
FileNames == {PdfName, UpperPdfName, TxtName}

Questions == {"q1", "q2"}

BuildSteps == <<"load", "chunk", "index", "assemble">>

StatusValues == {"none", "uploaded", "processing", "completed", "error"}

----------------------------------------------------------------------------
(* str.lower() and str.endswith() on tuples of characters *)

LowerChar(c) ==
    CASE c = "B" -> "b"
      [] c = "P" -> "p"
      [] c = "D" -> "d"
      [] c = "F" -> "f"
      [] OTHER -> c

Lower(s) == [i \in 1..Len(s) |-> LowerChar(s[i])]

EndsWith(s, suffix) ==
    /\ Len(s) >= Len(suffix)
    /\ SubSeq(s, Len(s) - Len(suffix) + 1, Len(s)) = suffix

DotPdf == <<".", "p", "d", "f">>

----------------------------------------------------------------------------
(* dict helpers *)

SetKey(d, k, v) == (k :> v) @@ d

HasKey(d, k) == k \in DOMAIN d

----------------------------------------------------------------------------
(* main.py:68-78 *)

NewSession ==
    [status |-> "none",
     retrieval_chain |-> None,
     processor |-> None,
     filename |-> None,
     error |-> None]

\* a lookup that starts every referenced session afresh
get_or_create_session_store_Fresh(store, session_id) ==
    (session_id :> NewSession) @@ store

\* a new session that starts from the dict of an existing one
get_or_create_session_store_Shared(store, session_id) ==
    IF session_id \in DOMAIN store
    THEN store
    ELSE IF DOMAIN store = {}
    THEN (session_id :> NewSession) @@ store
    ELSE (session_id :> store[CHOOSE s \in DOMAIN store : TRUE]) @@ store

get_or_create_session_store(store, session_id) ==
    IF session_id \in DOMAIN store
    THEN store
    ELSE (session_id :> NewSession) @@ store

\* one dict shared by all sessions: a write shows in every session
SessionWrite_AllSessions(store, session_id, key, value) ==
    [s \in DOMAIN store |-> SetKey(store[s], key, value)]

\* store with session[key] = value
SessionWrite(store, session_id, key, value) ==
    [store EXCEPT ![session_id] = SetKey(store[session_id], key, value)]

----------------------------------------------------------------------------
(* Objects created by the build of upload u *)

Chain(u) == [kind |-> "chain", build |-> u]
Formatter(u) == [kind |-> "format_inputs", build |-> u]

\* main.py:133-141 / app.py:325-335
format_inputs(inputs) ==
    IF HasKey(inputs, "question")
    THEN [ok |-> TRUE, value |-> [question |-> inputs["question"]]]
    ELSE IF HasKey(inputs, "input")
    THEN [ok |-> TRUE, value |-> [question |-> inputs["input"]]]
    ELSE [ok |-> FALSE,
          error |-> <<"Input must contain either 'question' or 'input' key">>]

----------------------------------------------------------------------------
(* Messages *)

OllamaNotRunning ==
    <<"Ollama is not running. Please start Ollama before processing documents.">>

\* str(e) of the exception raised by a failing build step
StepError(step) == <<step, " failed">>

----------------------------------------------------------------------------
(* The event loop: every handler and process_document are coroutines      *)
(* without an await between their reads and writes of document_store, so a *)
(* started process_document runs to its end before anything else runs.     *)

Running == {u \in DOMAIN tasks : tasks[u].pc # "scheduled"}

\* a request handler runs when no process_document is under way
LoopFree == Running = {}

\* background tasks that yield between their statements, so that a second
\* task starts while the first is under way
BuildMayStart_Overlapping == TRUE

\* a scheduled process_document starts when none is under way
BuildMayStart == LoopFree

----------------------------------------------------------------------------
NoResponse == [op |-> "none"]

\* main.py:43 and a server that has served no request
ApiInit ==
    /\ document_store = <<>>
    /\ reading = EmptyBag
    /\ tasks = <<>>
    /\ uploads = 0
    /\ latest = [s \in SessionIds |-> 0]
    /\ external_calls = <<>>
    /\ resp = NoResponse

\* a browser session whose script has not run yet
UiInit ==
    /\ session_state = <<>>
    /\ widgets = [debug |-> FALSE, uploaded_file |-> None]
    /\ script = [pc |-> "idle", user_input |-> None, rerun |-> FALSE,
                 invoked |-> <<>>, by_rerun |-> FALSE, start |-> <<>>]

FnIdle ==
    /\ fn_in = [fn |-> "none"]
    /\ fn_out = [done |-> FALSE]

Init ==
    /\ program = "api"
    /\ ApiInit
    /\ UiInit
    /\ FnIdle

\* a step of the API server
ApiStep ==
    /\ program = "api"
    /\ UNCHANGED <<ui_vars, fn_vars, program>>

----------------------------------------------------------------------------
(* POST /upload, main.py:180-218.  io_ok: reading the upload and writing    *)
(* the temporary file raised nothing.                                       *)

\* a validation that forgets the file type
upload_check_AnyFile(session_id, fname) ==
    IF session_id = NoSessionId
    THEN "no_session"
    ELSE "ok"

\* main.py:187-191: the request is refused for its session_id, for its
\* filename, or goes on
upload_check(session_id, fname) ==
    IF session_id = NoSessionId
    THEN "no_session"
    ELSE IF ~EndsWith(Lower(fname), DotPdf)
    THEN "not_pdf"
    ELSE "ok"

\* a handler that announces the build's status itself
accept_upload_Processing(store, session_id) ==
    SessionWrite(get_or_create_session_store(store, session_id),
                 session_id, "status", "processing")

\* main.py:202-203
accept_upload(store, session_id) ==
    SessionWrite(get_or_create_session_store(store, session_id),
                 session_id, "status", "uploaded")

\* main.py:187-197: the checks, the temporary file, and `await file.read()`,
\* at which the handler gives the event loop back
upload_document_begin(session_id, fname) ==
    /\ ApiStep
    /\ LoopFree
    /\ IF upload_check(session_id, fname) = "no_session"
       THEN /\ resp' = [op |-> "upload", session_id |-> session_id, code |-> 400,
                        detail |-> [text |-> "Session ID is required", arg |-> None]]
            /\ UNCHANGED reading
       ELSE IF upload_check(session_id, fname) = "not_pdf"
       THEN /\ resp' = [op |-> "upload", session_id |-> session_id, code |-> 400,
                        detail |-> [text |-> "Only PDF files are supported", arg |-> None]]
            /\ UNCHANGED reading
       ELSE /\ uploads + BagCardinality(reading) < MaxUploads
            /\ reading' = reading (+) SetToBag({[session_id |-> session_id,
                                                 filename |-> fname]})
            /\ resp' = NoResponse
    /\ UNCHANGED <<document_store, tasks, uploads, latest, external_calls>>

\* main.py:197-218: the handler goes on when the read has returned or raised
upload_document_resume(session_id, fname, io_ok) ==
    /\ ApiStep
    /\ LoopFree
    /\ BagIn([session_id |-> session_id, filename |-> fname], reading)
    /\ reading' = reading (-) SetToBag({[session_id |-> session_id,
                                         filename |-> fname]})
    /\ IF ~io_ok
       THEN /\ resp' = [op |-> "upload", session_id |-> session_id, code |-> 500,
                        detail |-> [text |-> "", arg |-> <<"temporary file error">>]]
            /\ UNCHANGED <<document_store, tasks, uploads, latest, external_calls>>
       ELSE /\ uploads < MaxUploads
            /\ uploads' = uploads + 1
            /\ document_store' = accept_upload(document_store, session_id)
            /\ tasks' = (uploads' :> [session_id |-> session_id,
                                      filename |-> fname,
                                      pc |-> "scheduled"]) @@ tasks
            /\ latest' = [latest EXCEPT ![session_id] = uploads']
            /\ resp' = [op |-> "upload", session_id |-> session_id, code |-> 200,
                        body |-> [session_id |-> session_id,
                                  status |-> "processing",
                                  message |-> <<"Document '", fname,
                                                "' uploaded and is being processed">>]]
            /\ UNCHANGED external_calls

upload_document(session_id, fname, io_ok) ==
    \/ upload_document_begin(session_id, fname)
    \/ upload_document_resume(session_id, fname, io_ok)

----------------------------------------------------------------------------
(* process_document, main.py:80-168, one action per statement group.        *)

TaskEnds(u) == [v \in DOMAIN tasks \ {u} |-> tasks[v]]

TaskAt(u, pc) == [tasks EXCEPT ![u].pc = pc]

\* an error status without its message
SessionFails_NoMessage(store, session_id, message) ==
    SessionWrite(store, session_id, "status", "error")

\* main.py:166-168 (and 88-89): status and error written by a failing build
SessionFails(store, session_id, message) ==
    SessionWrite(SessionWrite(store, session_id, "status", "error"),
                 session_id, "error", message)

\* main.py:82-84
BuildStart(u) ==
    /\ ApiStep
    /\ u \in DOMAIN tasks
    /\ tasks[u].pc = "scheduled"
    /\ BuildMayStart
    /\ document_store' =
           SessionWrite(
               SessionWrite(get_or_create_session_store(document_store, tasks[u].session_id),
                            tasks[u].session_id, "status", "processing"),
               tasks[u].session_id, "filename", tasks[u].filename)
    /\ tasks' = TaskAt(u, "check")
    /\ external_calls' = <<>>
    /\ resp' = NoResponse
    /\ UNCHANGED <<reading, uploads, latest>>

\* the check without its return: the build goes on after recording the error
BuildCheck_NoReturn(u, ollama_running) ==
    /\ ApiStep
    /\ u \in DOMAIN tasks
    /\ tasks[u].pc = "check"
    /\ document_store' =
           IF ollama_running
           THEN document_store
           ELSE SessionFails(document_store, tasks[u].session_id, OllamaNotRunning)
    /\ tasks' = TaskAt(u, "load")
    /\ resp' = NoResponse
    /\ UNCHANGED <<reading, uploads, latest, external_calls>>

\* main.py:87-90; ollama_running is the result of is_ollama_running()
BuildCheck(u, ollama_running) ==
    /\ ApiStep
    /\ u \in DOMAIN tasks
    /\ tasks[u].pc = "check"
    /\ IF ollama_running
       THEN /\ tasks' = TaskAt(u, "load")
            /\ UNCHANGED document_store
       ELSE /\ document_store' =
                   SessionFails(document_store, tasks[u].session_id, OllamaNotRunning)
            /\ tasks' = TaskEnds(u)
    /\ resp' = NoResponse
    /\ UNCHANGED <<reading, uploads, latest, external_calls>>

NextStep(step) ==
    CASE step = "load" -> "chunk"
      [] step = "chunk" -> "index"
      [] step = "index" -> "assemble"
      [] step = "assemble" -> "store_formatter"

\* main.py:93-94 (load), 97-99 (chunk), 102-103 (index), 106-159 (assemble);
\* ok: the step's calls raised nothing.  A raise runs the handler of 166-168.
BuildStep(u, ok) ==
    /\ ApiStep
    /\ u \in DOMAIN tasks
    /\ tasks[u].pc \in {BuildSteps[i] : i \in 1..Len(BuildSteps)}
    /\ external_calls' = Append(external_calls, <<u, tasks[u].pc>>)
    /\ IF ok
       THEN /\ tasks' = TaskAt(u, NextStep(tasks[u].pc))
            /\ UNCHANGED document_store
       ELSE /\ document_store' =
                   SessionFails(document_store, tasks[u].session_id,
                                StepError(tasks[u].pc))
            /\ tasks' = TaskEnds(u)
    /\ resp' = NoResponse
    /\ UNCHANGED <<reading, uploads, latest>>

\* main.py:162
BuildStoreFormatter(u) ==
    /\ ApiStep
    /\ u \in DOMAIN tasks
    /\ tasks[u].pc = "store_formatter"
    /\ document_store' = SessionWrite(document_store, tasks[u].session_id,
                                      "retrieval_chain_formatter", Formatter(u))
    /\ tasks' = TaskAt(u, "store_chain")
    /\ resp' = NoResponse
    /\ UNCHANGED <<reading, uploads, latest, external_calls>>

\* main.py:163
BuildStoreChain(u) ==
    /\ ApiStep
    /\ u \in DOMAIN tasks
    /\ tasks[u].pc = "store_chain"
    /\ document_store' = SessionWrite(document_store, tasks[u].session_id,
                                      "retrieval_chain", Chain(u))
    /\ tasks' = TaskAt(u, "store_status")
    /\ resp' = NoResponse
    /\ UNCHANGED <<reading, uploads, latest, external_calls>>

\* a build that ends without announcing its success
BuildStoreStatus_NoStatus(u) ==
    /\ ApiStep
    /\ u \in DOMAIN tasks
    /\ tasks[u].pc = "store_status"
    /\ tasks' = TaskEnds(u)
    /\ resp' = NoResponse
    /\ UNCHANGED <<reading, document_store, uploads, latest, external_calls>>

\* main.py:164
BuildStoreStatus(u) ==
    /\ ApiStep
    /\ u \in DOMAIN tasks
    /\ tasks[u].pc = "store_status"
    /\ document_store' = SessionWrite(document_store, tasks[u].session_id,
                                      "status", "completed")
    /\ tasks' = TaskEnds(u)
    /\ resp' = NoResponse
    /\ UNCHANGED <<reading, uploads, latest, external_calls>>

process_document(u) ==
    \/ BuildStart(u)
    \/ \E ollama_running \in BOOLEAN : BuildCheck(u, ollama_running)
    \/ \E ok \in BOOLEAN : BuildStep(u, ok)
    \/ BuildStoreFormatter(u)
    \/ BuildStoreChain(u)
    \/ BuildStoreStatus(u)

----------------------------------------------------------------------------
(* GET /document/status/{session_id}, main.py:220-229 *)

document_status(session_id) ==
    /\ ApiStep
    /\ LoopFree
    /\ document_store' = get_or_create_session_store(document_store, session_id)
    /\ resp' = [op |-> "status", session_id |-> session_id, code |-> 200,
                body |-> [session_id |-> session_id,
                          status |-> document_store'[session_id].status,
                          filename |-> document_store'[session_id].filename,
                          error |-> document_store'[session_id].error]]
    /\ UNCHANGED <<reading, tasks, uploads, latest, external_calls>>

----------------------------------------------------------------------------
(* Text: a Python str the code searches and splits is a tuple of tokens;   *)
(* the tokens the code looks for are BlankLine, FinalAnswer and Space.     *)

BlankLine == "\n\n"
FinalAnswer == "Final Answer:"
Space == " "
Whitespace == {BlankLine, Space}

RECURSIVE SplitFrom(_, _, _, _)
SplitFrom(text, delim, i, current) ==
    IF i > Len(text)
    THEN <<current>>
    ELSE IF /\ i + Len(delim) - 1 <= Len(text)
            /\ SubSeq(text, i, i + Len(delim) - 1) = delim
         THEN <<current>> \o SplitFrom(text, delim, i + Len(delim), <<>>)
         ELSE SplitFrom(text, delim, i + 1, Append(current, text[i]))

\* str.split(delim)
Split(text, delim) == SplitFrom(text, delim, 1, <<>>)

\* delim in text
Contains(text, delim) == Len(Split(text, delim)) > 1

\* str.count(delim)
Count(text, delim) == Len(Split(text, delim)) - 1

RECURSIVE LStrip(_)
LStrip(text) ==
    IF text # <<>> /\ Head(text) \in Whitespace THEN LStrip(Tail(text)) ELSE text

RECURSIVE RStrip(_)
RStrip(text) ==
    IF text # <<>> /\ text[Len(text)] \in Whitespace
    THEN RStrip(SubSeq(text, 1, Len(text) - 1))
    ELSE text

\* str.strip()
Strip(text) == RStrip(LStrip(text))

RECURSIVE Join(_, _)
\* delim.join(parts)
Join(delim, parts) ==
    IF parts = <<>> THEN <<>>
    ELSE IF Len(parts) = 1 THEN parts[1]
    ELSE parts[1] \o delim \o Join(delim, Tail(parts))

----------------------------------------------------------------------------
(* The raw result of retrieval_chain.invoke: a str, or a dict given as the *)
(* tuple of its <<key, value>> items in insertion order.                   *)

StrResult(text) == [is_dict |-> FALSE, text |-> text]
DictResult(items) == [is_dict |-> TRUE, items |-> items]

DictKeys(items) == {items[i][1] : i \in 1..Len(items)}
DictGet(items, k) == items[CHOOSE i \in 1..Len(items) : items[i][1] = k][2]

\* repr() of a str inside str(dict): newlines are escaped
ReprToken(t) == IF t = BlankLine THEN "\\n\\n" ELSE t
ReprText(text) == <<"'">> \o [i \in 1..Len(text) |-> ReprToken(text[i])] \o <<"'">>

\* str(response)
Str(response) ==
    IF response.is_dict
    THEN <<"{">>
         \o Join(<<", ">>,
                 [i \in 1..Len(response.items) |->
                     <<"'", response.items[i][1], "'", ": ">>
                     \o ReprText(response.items[i][2])])
         \o <<"}">>
    ELSE response.text

\* an extraction that looks for "result" before "answer"
extract_answer_ResultFirst(response) ==
    IF response.is_dict
    THEN IF "result" \in DictKeys(response.items)
         THEN DictGet(response.items, "result")
         ELSE IF "answer" \in DictKeys(response.items)
         THEN DictGet(response.items, "answer")
         ELSE IF "output" \in DictKeys(response.items)
         THEN DictGet(response.items, "output")
         ELSE IF "response" \in DictKeys(response.items)
         THEN DictGet(response.items, "response")
         ELSE Str(response)
    ELSE Str(response)

\* main.py:250-264
extract_answer(response) ==
    IF response.is_dict
    THEN IF "answer" \in DictKeys(response.items)
         THEN DictGet(response.items, "answer")
         ELSE IF "result" \in DictKeys(response.items)
         THEN DictGet(response.items, "result")
         ELSE IF "output" \in DictKeys(response.items)
         THEN DictGet(response.items, "output")
         ELSE IF "response" \in DictKeys(response.items)
         THEN DictGet(response.items, "response")
         ELSE Str(response)
    ELSE Str(response)

\* a paragraph split that keeps only the first paragraph as the thinking
question_result_FirstParagraph(answer, include_reasoning) ==
    IF include_reasoning
    THEN IF Contains(answer, <<BlankLine, FinalAnswer>>)
         THEN LET parts == Split(answer, <<BlankLine, FinalAnswer>>)
              IN  [thinking |-> Strip(parts[1]),
                   answer |-> <<FinalAnswer>> \o Strip(parts[2])]
         ELSE IF Count(answer, <<BlankLine>>) > 0
         THEN LET paragraphs == Split(answer, <<BlankLine>>)
              IN  [thinking |-> paragraphs[1],
                   answer |-> paragraphs[Len(paragraphs)]]
         ELSE [answer |-> answer]
    ELSE [answer |-> answer]

\* main.py:266-293: the dict the handler returns
question_result(answer, include_reasoning) ==
    IF include_reasoning
    THEN IF Contains(answer, <<BlankLine, FinalAnswer>>)
         THEN LET parts == Split(answer, <<BlankLine, FinalAnswer>>)
              IN  [thinking |-> Strip(parts[1]),
                   answer |-> <<FinalAnswer>> \o Strip(parts[2])]
         ELSE IF Count(answer, <<BlankLine>>) > 0
         THEN LET paragraphs == Split(answer, <<BlankLine>>)
              IN  [thinking |-> Join(<<BlankLine>>,
                                     SubSeq(paragraphs, 1, Len(paragraphs) - 1)),
                   answer |-> paragraphs[Len(paragraphs)]]
         ELSE [answer |-> answer]
    ELSE [answer |-> answer]

----------------------------------------------------------------------------
(* POST /question, main.py:231-295.  outcome: what retrieval_chain.invoke   *)
(* does, [raises |-> TRUE, error |-> message] or [raises |-> FALSE,         *)
(* value |-> raw result].                                                   *)

Raises(message) == [raises |-> TRUE, error |-> message]
Returns(value) == [raises |-> FALSE, value |-> value]

ChainOutcomes ==
    { Raises(<<"generation failed">>),
      Returns(StrResult(<<"A">>)),
      Returns(DictResult(<< <<"result", <<"p1", BlankLine, "p2">> >> >>)) }

Detail(text, arg) == [text |-> text, arg |-> arg]

\* a gate on the pipeline handle instead of the status
not_completed_ChainGate(session) == session.retrieval_chain = None

\* main.py:236
not_completed(session) == session.status # "completed"

\* the handler's outcome on `session`: status code, detail or body, and the
\* pipeline invocations it made
question_outcome(session, request, outcome) ==
    IF not_completed(session)
    THEN IF session.status = "error"
         THEN [code |-> 400,
               detail |-> Detail("Error processing document: ", session.error),
               invoked |-> <<>>]
         ELSE [code |-> 400,
               detail |-> Detail("Document processing not completed", None),
               invoked |-> <<>>]
    ELSE IF session.retrieval_chain = None
    THEN [code |-> 400,
          detail |-> Detail("No document has been processed for this session", None),
          invoked |-> <<>>]
    ELSE IF ~HasKey(session, "retrieval_chain_formatter")
    THEN [code |-> 500,
          detail |-> Detail("Error processing question: ",
                            <<"'retrieval_chain_formatter'">>),
          invoked |-> <<>>]
    ELSE LET formatted_input == format_inputs([input |-> request.question])
             call == [chain |-> session.retrieval_chain,
                      formatter |-> session.retrieval_chain_formatter,
                      input |-> formatted_input.value]
         IN  IF ~formatted_input.ok
             THEN [code |-> 500,
                   detail |-> Detail("Error processing question: ",
                                     formatted_input.error),
                   invoked |-> <<>>]
             ELSE IF outcome.raises
             THEN [code |-> 500,
                   detail |-> Detail("Error processing question: ", outcome.error),
                   invoked |-> <<call>>]
             ELSE [code |-> 200,
                   body |-> question_result(extract_answer(outcome.value),
                                            request.include_reasoning),
                   invoked |-> <<call>>]

\* a handler that records a generation failure in the session
ask_question_MarksError(request, outcome) ==
    /\ ApiStep
    /\ LoopFree
    /\ resp' = [op |-> "question", session_id |-> request.session_id]
               @@ question_outcome(
                      get_or_create_session_store(document_store,
                                                  request.session_id)[request.session_id],
                      request, outcome)
    /\ document_store' =
           IF resp'.code = 500
           THEN SessionFails(get_or_create_session_store(document_store,
                                                         request.session_id),
                             request.session_id, resp'.detail.arg)
           ELSE get_or_create_session_store(document_store, request.session_id)
    /\ UNCHANGED <<reading, tasks, uploads, latest, external_calls>>

ask_question(request, outcome) ==
    /\ ApiStep
    /\ LoopFree
    /\ document_store' =
           get_or_create_session_store(document_store, request.session_id)
    /\ resp' = [op |-> "question", session_id |-> request.session_id]
               @@ question_outcome(document_store'[request.session_id],
                                   request, outcome)
    /\ UNCHANGED <<reading, tasks, uploads, latest, external_calls>>

QuestionRequests ==
    [question : Questions, session_id : SessionIds, include_reasoning : BOOLEAN]

----------------------------------------------------------------------------
(* The Streamlit script, app.py.  A script run is triggered by the user    *)
(* (first load, a widget change, a form submit) or by st.rerun(); it goes   *)
(* through the positions "sidebar" (after lines 40-59), "form" (after      *)
(* 233-384), "end" (after 421-503) and back to "idle" (after 507-512).     *)

MaxMessages == 3

\* the form text is a text; the empty text is falsy as None is (app.py:427)
UiQuestions == {<<"q1">>}

Message(role, content) == [role |-> role, content |-> content]

SetDefault(d, k, v) == IF HasKey(d, k) THEN d ELSE SetKey(d, k, v)

\* the newest message put first
AppendMessage_Prepend(ss, m) == SetKey(ss, "messages", <<m>> \o ss["messages"])

\* st.session_state.messages.append(m)
AppendMessage(ss, m) == SetKey(ss, "messages", Append(ss["messages"], m))

\* app.py:43-52
init_session_state(ss) ==
    SetDefault(
      SetDefault(
        SetDefault(
          SetDefault(
            SetDefault(ss, "messages", <<>>),
            "retrieval_chain", None),
          "document_processed", FALSE),
        "debug_mode", FALSE),
      "should_rerun", FALSE)

OllamaWarning ==
    Message("system",
            <<"Warning: Ollama is not running. Please start Ollama before processing documents.">>)

ErrorMessage(text) ==
    Message("system",
            <<"<div class=\"status-indicator error\">", "Error: ">> \o text
            \o <<"</div>">>)

DebugTrace ==
    Message("system",
            <<"<div class=\"status-indicator error\">", "Debug Error:", "</div>",
              "traceback">>)

ProcessedMessage(fname) ==
    Message("system",
            <<"Document '">> \o fname
            \o <<"' has been processed successfully. You can now ask questions about it.">>)

UploadFirst ==
    Message("assistant", <<"Please upload and process a document first.">>)

\* json.dumps of a str: the newlines are escaped
JsonToken(t) == IF t = BlankLine THEN "\\n\\n" ELSE t
JsonText(text) == <<"\"">> \o [i \in 1..Len(text) |-> JsonToken(text[i])] \o <<"\"">>

\* json.dumps(response, default=str, indent=2) of a dict of strs
JsonDumps(response) ==
    IF response.items = <<>>
    THEN <<"{}">>
    ELSE <<"{\n">>
         \o Join(<<",\n">>,
                 [i \in 1..Len(response.items) |->
                     <<"  \"", response.items[i][1], "\": ">>
                     \o JsonText(response.items[i][2])])
         \o <<"\n}">>

\* str(list(response.keys()))
KeysRepr(response) ==
    <<"[">>
    \o Join(<<", ">>,
            [i \in 1..Len(response.items) |-> <<"'", response.items[i][1], "'">>])
    \o <<"]">>

\* the Markdown fence of app.py:461, three grave accents (U+0060); a TLA+
\* string cannot hold that character, so the token is written with
\* apostrophes and stands for the fence wherever it appears
CodeFence == "'''"

\* app.py:450-461
DebugInfo(response) ==
    Message("system",
            <<"Debug Info:\n", CodeFence, "\n", "Response type: ">>
            \o (IF response.is_dict
                THEN <<"<class 'dict'>", "\n", "Keys: ">> \o KeysRepr(response)
                     \o <<"\n", "Content: ">> \o JsonDumps(response)
                ELSE <<"<class 'str'>", "\n", "Content: ">> \o Str(response))
            \o <<"\n", CodeFence>>)

\* the messages known so far, before the keys exist
MessagesOf(ss) == IF HasKey(ss, "messages") THEN ss["messages"] ELSE <<>>

\* the session state apart from the message log
NonLog(ss) == [k \in DOMAIN ss \ {"messages"} |-> ss[k]]

\* what the user may have set before a run they trigger
WidgetValues == [debug : BOOLEAN, uploaded_file : {None, PdfName}]

\* app.py:40-59; user_input is the submitted form text, empty without a submit
ScriptTop(new_widgets, user_input, ollama_running) ==
    /\ program = "ui"
    /\ script.pc = "idle"
    /\ Len(MessagesOf(session_state)) < MaxMessages
    /\ script.rerun => (new_widgets = widgets /\ user_input = None)
    /\ widgets' = new_widgets
    /\ session_state' =
           IF ollama_running
           THEN init_session_state(session_state)
           ELSE AppendMessage(init_session_state(session_state), OllamaWarning)
    /\ script' = [pc |-> "sidebar", user_input |-> user_input, rerun |-> FALSE,
                  invoked |-> <<>>, by_rerun |-> script.rerun,
                  start |-> NonLog(session_state')]
    /\ UNCHANGED <<api_vars, fn_vars, program>>

\* outcomes of the build of app.py:272-368: it succeeds, OllamaLLM raises
\* (292-297), or another call raises the message str(e)
UiBuildOutcomes ==
    { [kind |-> "ok"], [kind |-> "llm_error"],
      [kind |-> "raise", error |-> StepError("load")] }

\* app.py:370-384 and 485-499: the handler of a failure
handle_error(ss, error) ==
    LET reported == SetKey(AppendMessage(ss, ErrorMessage(error)),
                           "should_rerun", TRUE)
    IN  IF reported["debug_mode"]
        THEN AppendMessage(reported, DebugTrace)
        ELSE reported

\* a sidebar that stores the chain and forgets to mark the document processed
sidebar_result_FlagNotSet(ss0, w, ollama_running, build) ==
    LET ss == SetKey(ss0, "debug_mode", w.debug)
    IN  IF w.uploaded_file # None /\ ~ss["document_processed"]
        THEN IF ~ollama_running
             THEN [ss |-> ss, stopped |-> FALSE]
             ELSE IF build.kind = "llm_error"
             THEN [ss |-> SetKey(ss, "document_processed", FALSE),
                   stopped |-> TRUE]
             ELSE IF build.kind = "raise"
             THEN [ss |-> handle_error(ss, build.error), stopped |-> FALSE]
             ELSE [ss |-> AppendMessage(
                              SetKey(
                                SetKey(ss, "retrieval_chain_formatter",
                                       Formatter(1)),
                                "retrieval_chain", Chain(1)),
                              ProcessedMessage(w.uploaded_file)),
                   stopped |-> FALSE]
        ELSE [ss |-> ss, stopped |-> FALSE]

\* app.py:233-384: the session state after the sidebar, and whether st.stop()
\* ended the run
sidebar_result(ss0, w, ollama_running, build) ==
    LET ss == SetKey(ss0, "debug_mode", w.debug)
    IN  IF w.uploaded_file # None /\ ~ss["document_processed"]
        THEN IF ~ollama_running
             THEN [ss |-> ss, stopped |-> FALSE]
             ELSE IF build.kind = "llm_error"
             THEN [ss |-> SetKey(ss, "document_processed", FALSE),
                   stopped |-> TRUE]
             ELSE IF build.kind = "raise"
             THEN [ss |-> handle_error(ss, build.error), stopped |-> FALSE]
             ELSE [ss |-> AppendMessage(
                              SetKey(
                                SetKey(
                                  SetKey(ss, "retrieval_chain_formatter",
                                         Formatter(1)),
                                  "retrieval_chain", Chain(1)),
                                "document_processed", TRUE),
                              ProcessedMessage(w.uploaded_file)),
                   stopped |-> FALSE]
        ELSE [ss |-> ss, stopped |-> FALSE]

ScriptSidebar(ollama_running, build) ==
    /\ program = "ui"
    /\ script.pc = "sidebar"
    /\ LET r == sidebar_result(session_state, widgets, ollama_running, build)
       IN  /\ session_state' = r.ss
           /\ script' = [script EXCEPT !.pc = IF r.stopped THEN "idle" ELSE "form"]
    /\ UNCHANGED <<widgets, api_vars, fn_vars, program>>

MissingVariables == "Input to PromptTemplate is missing variables"

UiChainOutcomes ==
    { Raises(<<"generation failed">>),
      Raises(<<MissingVariables, " ['question']">>),
      Returns(StrResult(<<"A">>)),
      Returns(DictResult(<< <<"result", <<"p1", BlankLine, "p2">> >> >>)) }

\* app.py:434-447: the pipeline calls made for user_input and what they gave;
\* first and retry are what the first and the last-resort invoke do
invoke_chain(ss, user_input, first, retry) ==
    LET formatted_input ==
            IF HasKey(ss, "retrieval_chain_formatter")
            THEN format_inputs([input |-> user_input])
            ELSE [ok |-> TRUE, value |-> [question |-> user_input]]
        call(input) == [chain |-> ss["retrieval_chain"], input |-> input]
    IN  IF ~formatted_input.ok
        THEN [calls |-> <<>>, outcome |-> Raises(formatted_input.error)]
        ELSE IF first.raises
                /\ \E i \in 1..Len(first.error) : first.error[i] = MissingVariables
        THEN [calls |-> <<call(formatted_input.value), call([input |-> user_input])>>,
              outcome |-> retry]
        ELSE [calls |-> <<call(formatted_input.value)>>, outcome |-> first]

\* app.py:463-479
ui_extract_answer(response) ==
    IF response.is_dict
    THEN IF "answer" \in DictKeys(response.items)
         THEN DictGet(response.items, "answer")
         ELSE IF "result" \in DictKeys(response.items)
         THEN DictGet(response.items, "result")
         ELSE IF "output" \in DictKeys(response.items)
         THEN DictGet(response.items, "output")
         ELSE IF "response" \in DictKeys(response.items)
         THEN DictGet(response.items, "response")
         ELSE Str(response)
    ELSE Str(response)

\* app.py:427-503
form_result(ss, user_input, first, retry) ==
    IF user_input = None
    THEN [ss |-> ss, invoked |-> <<>>]
    ELSE LET asked == AppendMessage(ss, Message("user", user_input))
         IN  IF asked["retrieval_chain"] # None
             THEN LET r == invoke_chain(asked, user_input, first, retry)
                  IN  IF r.outcome.raises
                      THEN [ss |-> handle_error(asked, r.outcome.error),
                            invoked |-> r.calls]
                      ELSE LET logged ==
                                   IF asked["debug_mode"]
                                   THEN AppendMessage(asked, DebugInfo(r.outcome.value))
                                   ELSE asked
                           IN  [ss |-> SetKey(
                                         AppendMessage(
                                           logged,
                                           Message("assistant",
                                                   ui_extract_answer(r.outcome.value))),
                                         "should_rerun", TRUE),
                                invoked |-> r.calls]
             ELSE [ss |-> SetKey(AppendMessage(asked, UploadFirst),
                                 "should_rerun", TRUE),
                   invoked |-> <<>>]

ScriptForm(first, retry) ==
    /\ program = "ui"
    /\ script.pc = "form"
    /\ LET r == form_result(session_state, script.user_input, first, retry)
       IN  /\ session_state' = r.ss
           /\ script' = [script EXCEPT !.pc = "end", !.invoked = r.invoked]
    /\ UNCHANGED <<widgets, api_vars, fn_vars, program>>

\* app.py:507-512
ScriptEnd ==
    /\ program = "ui"
    /\ script.pc = "end"
    /\ session_state' = SetKey(session_state, "should_rerun", FALSE)
    /\ script' = [script EXCEPT !.pc = "idle",
                                !.rerun = session_state["should_rerun"]]
    /\ UNCHANGED <<widgets, api_vars, fn_vars, program>>

NextUI ==
    \/ \E new_widgets \in WidgetValues, ollama_running \in BOOLEAN :
          \/ ScriptTop(new_widgets, None, ollama_running)
          \/ \E user_input \in UiQuestions :
                ScriptTop(new_widgets, user_input, ollama_running)
    \/ \E ollama_running \in BOOLEAN, build \in UiBuildOutcomes :
          ScriptSidebar(ollama_running, build)
    \/ \E first \in UiChainOutcomes, retry \in UiChainOutcomes :
          ScriptForm(first, retry)
    \/ ScriptEnd

InitUI ==
    /\ program = "ui"
    /\ ApiInit
    /\ UiInit
    /\ FnIdle

SpecUI == InitUI /\ [][NextUI]_vars

----------------------------------------------------------------------------
(* Functions applied alone.                                                *)
(* format_inputs on a dict: each of the keys "question", "input" and       *)
(* "context" is absent or holds one of the texts.                          *)

ShimKeys == {"question", "input", "context"}
ShimTexts == {"X", "Y", "Z"}
ShimInputs == UNION { [keys -> ShimTexts] : keys \in SUBSET ShimKeys }

\* The answer extraction on a raw result: a dict holding any of the keys,
\* inserted in one order or the other, or a str.
ExtractKeys == <<"answer", "result", "output", "response", "foo">>

KeyText(k) ==
    CASE k = "answer" -> <<"A">>
      [] k = "result" -> <<"B">>
      [] k = "output" -> <<"C">>
      [] k = "response" -> <<"D">>
      [] k = "foo" -> <<"E">>

Reverse(seq) == [i \in 1..Len(seq) |-> seq[Len(seq) + 1 - i]]

ItemsOf(keys, order) ==
    LET present == SelectSeq(order, LAMBDA k : k \in keys)
    IN  [i \in 1..Len(present) |-> <<present[i], KeyText(present[i])>>]

ExtractInputs ==
    { DictResult(ItemsOf(keys, order)) :
          keys \in SUBSET {ExtractKeys[i] : i \in 1..Len(ExtractKeys)},
          order \in {ExtractKeys, Reverse(ExtractKeys)} }
    \cup { StrResult(<<"A">>), StrResult(<<"p1", BlankLine, "p2">>) }

\* The reasoning split on an answer text: every text of at most MaxTextLen
\* tokens, and the three texts of longer words.
MaxTextLen == 4

TextTokens == {"p1", "p2", BlankLine, FinalAnswer, Space}

TextsOfLen(n) == [1..n -> TextTokens]

SplitTexts ==
    UNION { TextsOfLen(n) : n \in 0..MaxTextLen }
    \cup { <<"step1", BlankLine, FinalAnswer, Space, "X">>,
           <<"p1", BlankLine, "p2", BlankLine, "p3">>,
           <<"single line">> }

InitFn ==
    /\ program = "fn"
    /\ ApiInit
    /\ UiInit
    /\ \/ fn_in \in { [fn |-> "format_inputs", arg |-> m] : m \in ShimInputs }
       \/ fn_in \in { [fn |-> f, arg |-> r] :
                         f \in {"extract_answer", "ui_extract_answer"},
                         r \in ExtractInputs }
       \/ fn_in \in { [fn |-> "question_result", arg |-> t, include_reasoning |-> b] :
                         t \in SplitTexts, b \in BOOLEAN }
    /\ fn_out = [done |-> FALSE]

ApplyFormatInputs ==
    /\ program = "fn"
    /\ fn_in.fn = "format_inputs"
    /\ ~fn_out.done
    /\ fn_out' = [done |-> TRUE, result |-> format_inputs(fn_in.arg)]
    /\ UNCHANGED <<fn_in, api_vars, ui_vars, program>>

ApplyExtractAnswer ==
    /\ program = "fn"
    /\ fn_in.fn = "extract_answer"
    /\ ~fn_out.done
    /\ fn_out' = [done |-> TRUE, result |-> extract_answer(fn_in.arg)]
    /\ UNCHANGED <<fn_in, api_vars, ui_vars, program>>

ApplyUiExtractAnswer ==
    /\ program = "fn"
    /\ fn_in.fn = "ui_extract_answer"
    /\ ~fn_out.done
    /\ fn_out' = [done |-> TRUE, result |-> ui_extract_answer(fn_in.arg)]
    /\ UNCHANGED <<fn_in, api_vars, ui_vars, program>>

ApplyQuestionResult ==
    /\ program = "fn"
    /\ fn_in.fn = "question_result"
    /\ ~fn_out.done
    /\ fn_out' = [done |-> TRUE,
                  result |-> question_result(fn_in.arg, fn_in.include_reasoning)]
    /\ UNCHANGED <<fn_in, api_vars, ui_vars, program>>

NextFn ==
    \/ ApplyFormatInputs
    \/ ApplyExtractAnswer
    \/ ApplyUiExtractAnswer
    \/ ApplyQuestionResult

SpecFn == InitFn /\ [][NextFn]_vars

----------------------------------------------------------------------------
Next ==
    \/ \E session_id \in SessionIds \cup {NoSessionId}, fname \in FileNames,
          io_ok \in BOOLEAN :
          upload_document(session_id, fname, io_ok)
    \/ \E u \in 1..MaxUploads : process_document(u)
    \/ \E session_id \in SessionIds : document_status(session_id)
    \/ \E request \in QuestionRequests, outcome \in ChainOutcomes :
          ask_question(request, outcome)

Spec == Init /\ [][Next]_vars

\* The event loop runs every scheduled coroutine, and every call a build makes
\* returns or raises: a background task that can take a step takes one.
Fairness == \A u \in 1..MaxUploads : WF_vars(process_document(u))

SpecFair == Init /\ [][Next]_vars /\ Fairness

----------------------------------------------------------------------------
(* The three together: a behaviour runs the API server, or one browser     *)
(* session of the Streamlit app, or format_inputs alone.                   *)

InitPrograms ==
    \/ Init
    \/ InitUI
    \/ InitFn

NextPrograms ==
    \/ Next
    \/ NextUI
    \/ NextFn

SpecPrograms == InitPrograms /\ [][NextPrograms]_vars

----------------------------------------------------------------------------
(* Properties of the API *)

Sessions == DOMAIN document_store

StatusOf(store, session_id) ==
    IF session_id \in DOMAIN store THEN store[session_id].status ELSE "none"

\* A step of ask_question or document_status is known by the response it
\* leaves: every other step leaves a response with another op.
IsQuestionStep == resp'.op = "question"
IsStatusStep == resp'.op = "status"

\* C1: in every state a request can observe, a session's retrieval_chain is
\* non-null if and only if its status is "completed".
C1_PipelineIffCompleted ==
    LoopFree =>
        \A s \in Sessions :
            (document_store[s].retrieval_chain # None)
                <=> (document_store[s].status = "completed")

\* C2: a question on a session whose status is not "completed" fails with 400
\* and invokes no pipeline; on an "error" session the detail carries the stored
\* error message.
C2_NotReadyUnlessCompleted ==
    [][( /\ IsQuestionStep
         /\ StatusOf(document_store, resp'.session_id) # "completed" )
       => /\ resp'.code = 400
          /\ resp'.invoked = <<>>
          /\ StatusOf(document_store, resp'.session_id) = "error"
             => /\ resp'.detail.arg = document_store[resp'.session_id].error
                /\ resp'.detail.arg # None]_vars

C2_Witness ==
    /\ resp.op = "question"
    /\ resp.code = 400
    /\ resp.detail.text = "Error processing document: "
    /\ resp.detail.arg = StepError("chunk")
    /\ document_store[resp.session_id].retrieval_chain # None

\* C3: status-check of a session identifier that never had an accepted upload
\* returns status "none" with null filename and null error.
C3_NeverUploadedIsNone ==
    [][(IsStatusStep /\ latest[resp'.session_id] = 0)
       => resp'.body = [session_id |-> resp'.session_id, status |-> "none",
                        filename |-> None, error |-> None]]_vars

C3_Witness ==
    /\ resp.op = "status"
    /\ latest[resp.session_id] = 0
    /\ resp.body.status = "none"
    /\ \E other \in Sessions \ {resp.session_id} :
           document_store[other].status = "error"

\* C4: a session's status changes only along none->uploaded,
\* uploaded->processing, processing->completed, processing->error, and into
\* "uploaded" by a newly accepted upload.
StatusEdges ==
    { <<"none", "uploaded">>, <<"uploaded", "processing">>,
      <<"processing", "completed">>, <<"processing", "error">> }
    \cup { <<from, "uploaded">> : from \in StatusValues }

C4_StatusEdgesOnly ==
    [][\A s \in SessionIds :
          StatusOf(document_store', s) # StatusOf(document_store, s)
          => <<StatusOf(document_store, s), StatusOf(document_store', s)>>
                 \in StatusEdges]_vars

\* C5: once a re-upload is accepted, no question of that session is answered by
\* a pipeline built from an earlier upload: a question that is answered is
\* answered by the pipeline built from the session's most recently accepted
\* upload.  (The response is the one of the last step, and latest changes only
\* in a step that leaves another response.)
C5_NoAnswerFromEarlierUpload ==
    (resp.op = "question" /\ resp.code = 200)
    => resp.invoked[1].chain.build = latest[resp.session_id]

\* C6: a build that finds the language-model service unreachable sets status
\* "error" with the service message, ends, has called no build step, and leaves
\* the stored pipeline handle and input normalizer as they were.
StepsOf(u, calls) == {i \in 1..Len(calls) : calls[i][1] = u}

C6_ServiceDownStopsBuild ==
    [][\A u \in DOMAIN tasks :
          BuildCheck(u, FALSE)
          => LET s == tasks[u].session_id
             IN  /\ document_store'[s].status = "error"
                 /\ document_store'[s].error = OllamaNotRunning
                 /\ document_store'[s].error # None
                 /\ u \notin DOMAIN tasks'
                 /\ StepsOf(u, external_calls') = {}
                 /\ document_store'[s].retrieval_chain
                        = document_store[s].retrieval_chain
                 /\ HasKey(document_store'[s], "retrieval_chain_formatter")
                        = HasKey(document_store[s], "retrieval_chain_formatter")
                 /\ HasKey(document_store[s], "retrieval_chain_formatter")
                    => document_store'[s].retrieval_chain_formatter
                           = document_store[s].retrieval_chain_formatter]_vars

C6_Witness ==
    /\ LoopFree
    /\ tasks = <<>>
    /\ external_calls = <<>>
    /\ \E s \in Sessions :
           /\ document_store[s].status = "error"
           /\ document_store[s].error = OllamaNotRunning
           /\ document_store[s].retrieval_chain = Chain(1)
           /\ latest[s] = 2

\* C7: a build step that fails ends the build with no later step called, sets
\* status "error" and stores the causing message; it gives no response to any
\* caller.
C7_StepFailureCaptured ==
    [][\A u \in DOMAIN tasks :
          BuildStep(u, FALSE)
          => LET s == tasks[u].session_id
             IN  /\ document_store'[s].status = "error"
                 /\ document_store'[s].error = StepError(tasks[u].pc)
                 /\ u \notin DOMAIN tasks'
                 /\ external_calls' = Append(external_calls, <<u, tasks[u].pc>>)
                 /\ resp' = NoResponse]_vars

C7_Witness ==
    /\ resp.op = "status"
    /\ resp.body.status = "error"
    /\ resp.body.error = StepError("index")
    /\ external_calls = << <<1, "load">>, <<1, "chunk">>, <<1, "index">> >>
    /\ tasks = <<>>

\* C8: a question that invokes a pipeline uses a pipeline handle and an input
\* normalizer stored by the same build, and that build has finished; whenever a
\* request can observe status "completed", both stored handles are those of
\* one finished build.
C8_CompletedIsWholeBuild ==
    /\ (resp.op = "question" /\ resp.invoked # <<>>)
       => /\ resp.invoked[1].chain.build = resp.invoked[1].formatter.build
          /\ resp.invoked[1].chain.build \notin DOMAIN tasks
    /\ LoopFree
       => \A s \in Sessions :
              document_store[s].status = "completed"
              => /\ HasKey(document_store[s], "retrieval_chain_formatter")
                 /\ document_store[s].retrieval_chain # None
                 /\ document_store[s].retrieval_chain.build
                        = document_store[s].retrieval_chain_formatter.build
                 /\ document_store[s].retrieval_chain.build \notin DOMAIN tasks

C8_Witness ==
    /\ resp.op = "question"
    /\ resp.code = 200
    /\ resp.invoked[1].chain = Chain(2)
    /\ resp.invoked[1].formatter = Formatter(2)
    /\ latest[resp.session_id] = 2
    /\ \E u \in DOMAIN tasks : tasks[u].session_id # resp.session_id

\* C9: a question leaves every existing session as it was, whatever its outcome.
C9_QuestionLeavesSessions ==
    [][IsQuestionStep
       => \A s \in Sessions : document_store'[s] = document_store[s]]_vars

C9_Witness ==
    /\ resp.op = "question"
    /\ resp.code = 500
    /\ resp.invoked # <<>>
    /\ document_store[resp.session_id].status = "completed"
    /\ document_store[resp.session_id].retrieval_chain = resp.invoked[1].chain

----------------------------------------------------------------------------
(* Properties of the input normalisation shim *)

MissingQuestionKey == <<"Input must contain either 'question' or 'input' key">>

\* format_inputs applied alone
ShimContract ==
    (fn_in.fn = "format_inputs" /\ fn_out.done)
    => LET m == fn_in.arg
           r == fn_out.result
       IN  /\ (HasKey(m, "question") /\ ~HasKey(m, "input"))
              => (r.ok /\ r.value = [question |-> m["question"]])
           /\ (HasKey(m, "input") /\ ~HasKey(m, "question"))
              => (r.ok /\ r.value = [question |-> m["input"]])
           /\ (~HasKey(m, "input") /\ ~HasKey(m, "question"))
              => (~r.ok /\ r.error = MissingQuestionKey)

UserMessages == SelectSeq(MessagesOf(session_state), LAMBDA m : m.role = "user")

\* every pipeline call of a script run gets the normalised form text
ShimInUi ==
    script.invoked # <<>>
    => /\ UserMessages # <<>>
       /\ \A i \in 1..Len(script.invoked) :
              script.invoked[i].input
                  = [question |-> UserMessages[Len(UserMessages)].content]

\* C10: format_inputs maps a dict with exactly one of the keys "question" and
\* "input", of value X, to {question: X} and fails with the missing-key error on
\* a dict with neither; applying it changes no session; and every pipeline call
\* of the API's question handler and of the UI's form handler gets the
\* normalised question.
C10_ShimNormalizes ==
    [][ /\ ShimContract'
        /\ ApplyFormatInputs => UNCHANGED <<document_store, session_state>>
        /\ (IsQuestionStep /\ resp'.invoked # <<>>)
           => \A request \in QuestionRequests, outcome \in ChainOutcomes :
                 ( /\ request.session_id = resp'.session_id
                   /\ outcome.raises = (resp'.code = 500)
                   /\ ask_question(request, outcome) )
                 => \A i \in 1..Len(resp'.invoked) :
                        resp'.invoked[i].input = [question |-> request.question]
        /\ ShimInUi' ]_vars

----------------------------------------------------------------------------
(* Properties of the answer extraction and of the reasoning split *)

Priority == <<"answer", "result", "output", "response">>

PresentAt(items) ==
    {i \in 1..Len(Priority) : \E j \in 1..Len(items) : items[j][1] = Priority[i]}

\* the value of the first key of Priority that the dict holds, the rendering
\* of the whole result when it holds none or is no dict
ExpectedAnswer(response) ==
    IF response.is_dict /\ PresentAt(response.items) # {}
    THEN LET first == CHOOSE i \in PresentAt(response.items) :
                          \A j \in PresentAt(response.items) : i <= j
             at == CHOOSE j \in 1..Len(response.items) :
                       response.items[j][1] = Priority[first]
         IN  response.items[at][2]
    ELSE Str(response)

\* C11: the answer extracted from a raw result that is a dict is the value of
\* the first present key in the order answer, result, output, response; with
\* none of the four, or for a result that is no dict, it is the string
\* rendering of the whole result; the API and the UI extract the same answer.
C11_ExtractionPriority ==
    (fn_out.done /\ fn_in.fn \in {"extract_answer", "ui_extract_answer"})
    => fn_out.result = ExpectedAnswer(fn_in.arg)

C11_Witness ==
    /\ fn_out.done
    /\ fn_in.fn = "ui_extract_answer"
    /\ fn_in.arg = DictResult(<< <<"foo", <<"E">> >>, <<"result", <<"B">> >>,
                                 <<"answer", <<"A">> >> >>)
    /\ fn_out.result = <<"A">>

DelimiterAt(text) ==
    {i \in 1..(Len(text) - 1) : text[i] = BlankLine /\ text[i + 1] = FinalAnswer}

FirstDelimiter(text) ==
    CHOOSE i \in DelimiterAt(text) : \A j \in DelimiterAt(text) : i <= j

BlankLinesAt(text) == {i \in 1..Len(text) : text[i] = BlankLine}

LastBlankLine(text) ==
    CHOOSE i \in BlankLinesAt(text) : \A j \in BlankLinesAt(text) : j <= i

IsReasoningSplit == fn_out.done /\ fn_in.fn = "question_result"

\* C12: with include_reasoning, an answer text that contains "Final Answer:"
\* after a blank line (here: once) gives as thinking the text before that delimiter and as
\* answer the text from "Final Answer:" on, as written.  (Whitespace at the two
\* ends of the thinking and at the end of the answer is not compared.)
C12_FinalAnswerKeptAsWritten ==
    ( /\ IsReasoningSplit
      /\ fn_in.include_reasoning
      /\ Cardinality(DelimiterAt(fn_in.arg)) = 1 )
    => LET at == FirstDelimiter(fn_in.arg)
       IN  /\ DOMAIN fn_out.result = {"thinking", "answer"}
           /\ Strip(fn_out.result.thinking) = Strip(SubSeq(fn_in.arg, 1, at - 1))
           /\ RStrip(fn_out.result.answer)
                  = RStrip(SubSeq(fn_in.arg, at + 1, Len(fn_in.arg)))

\* C13: with include_reasoning and no "Final Answer:" delimiter, a text with
\* blank lines gives as thinking the paragraphs before the last blank line,
\* joined as they were, and as answer the last paragraph; a text without a
\* blank line is the answer, with no thinking; without include_reasoning the
\* result never has a thinking.
C13_ParagraphSplit ==
    IsReasoningSplit
    => /\ ~fn_in.include_reasoning => fn_out.result = [answer |-> fn_in.arg]
       /\ (fn_in.include_reasoning /\ DelimiterAt(fn_in.arg) = {})
          => IF BlankLinesAt(fn_in.arg) # {}
             THEN LET at == LastBlankLine(fn_in.arg)
                  IN  fn_out.result =
                          [thinking |-> SubSeq(fn_in.arg, 1, at - 1),
                           answer |-> SubSeq(fn_in.arg, at + 1, Len(fn_in.arg))]
             ELSE fn_out.result = [answer |-> fn_in.arg]

C13_Witness ==
    /\ IsReasoningSplit
    /\ fn_in.include_reasoning
    /\ fn_in.arg = <<"p1", BlankLine, "p2", BlankLine, "p3">>
    /\ fn_out.result = [thinking |-> <<"p1", BlankLine, "p2">>, answer |-> <<"p3">>]

----------------------------------------------------------------------------
(* Properties of the upload handler and of the session table *)

IsUploadStep == resp'.op = "upload"

\* a filename whose last four characters are ".pdf" in any case
IsPdfName(fname) ==
    /\ Len(fname) >= 4
    /\ fname[Len(fname) - 3] = "."
    /\ fname[Len(fname) - 2] \in {"p", "P"}
    /\ fname[Len(fname) - 1] \in {"d", "D"}
    /\ fname[Len(fname)] \in {"f", "F"}

\* C14: an upload without a session identifier, or of a file whose name does
\* not end in ".pdf" in any case, is answered 400, schedules no build and
\* leaves the session table as it was.
C14_RejectedUploadChangesNothing ==
    [][(IsUploadStep \/ reading' # reading)
       => \A session_id \in SessionIds \cup {NoSessionId}, fname \in FileNames,
             io_ok \in BOOLEAN :
             ( /\ session_id = NoSessionId \/ ~IsPdfName(fname)
               /\ upload_document(session_id, fname, io_ok) )
             => /\ IsUploadStep
                /\ resp'.code = 400
                /\ reading' = reading
                /\ document_store' = document_store
                /\ tasks' = tasks
                /\ uploads' = uploads]_vars

C14_Witness ==
    /\ resp.op = "upload"
    /\ resp.code = 400
    /\ resp.detail.text = "Only PDF files are supported"
    /\ resp.session_id \notin Sessions
    /\ \E s \in Sessions : document_store[s].status = "completed"
    /\ tasks = <<>>

\* C15: while a build is under way (it has set "processing" and has not yet
\* set "completed" or "error"), a status-check of any session and a question
\* of another session can be handled.
C15_BuildDoesNotBlock ==
    \A u \in Running :
        /\ \A s \in SessionIds : ENABLED document_status(s)
        /\ \A request \in QuestionRequests, outcome \in ChainOutcomes :
               request.session_id # tasks[u].session_id
               => ENABLED ask_question(request, outcome)

\* the session a step is for: the one of the request it answers, or the one
\* of the background task it advances
StepSessions ==
    IF resp'.op # "none"
    THEN {resp'.session_id}
    ELSE IF reading' # reading
    THEN {r.session_id : r \in BagToSet(reading' (-) reading)}
    ELSE {tasks[u].session_id :
              u \in {v \in DOMAIN tasks : v \notin DOMAIN tasks' \/ tasks'[v] # tasks[v]}}

NoSharedHandle ==
    \A s \in Sessions, t \in Sessions :
        (s # t /\ document_store[s].retrieval_chain # None)
        => document_store[s].retrieval_chain # document_store[t].retrieval_chain

\* C16: no two session identifiers hold the same pipeline handle, and a step
\* of an upload, a build, a status-check or a question of one session leaves
\* the entry of every other session as it was.
C16_SessionsIsolated ==
    [][ /\ NoSharedHandle'
        /\ Cardinality(StepSessions) <= 1
        /\ \A s \in Sessions :
               s \notin StepSessions => document_store'[s] = document_store[s] ]_vars

C16_Witness ==
    /\ "s1" \in Sessions
    /\ "s2" \in Sessions
    /\ document_store["s1"].status = "completed"
    /\ document_store["s1"].retrieval_chain = Chain(1)
    /\ document_store["s2"].status = "error"
    /\ document_store["s2"].error = StepError("assemble")
    /\ latest["s2"] = 2

\* C17: a session whose status is "error" leaves "error" only by a newly
\* accepted upload of that session; no build of an upload accepted earlier
\* moves it out of "error".
C17_ErrorUntilNewUpload ==
    [][\A s \in Sessions :
          (document_store[s].status = "error" /\ document_store'[s].status # "error")
          => /\ IsUploadStep
             /\ resp'.code = 200
             /\ resp'.session_id = s
             /\ document_store'[s].status = "uploaded"]_vars

\* the background tasks that start in this step
Starting == {u \in DOMAIN tasks : tasks[u].pc = "scheduled"
                                  /\ u \in DOMAIN tasks'
                                  /\ tasks'[u].pc # "scheduled"}

\* C18: the step that accepts an upload leaves the session's status
\* "uploaded" and the upload's build scheduled, not started; the status
\* becomes "processing" only in the step in which a scheduled build of that
\* session starts.
C18_UploadedBeforeProcessing ==
    [][ /\ (IsUploadStep /\ resp'.code = 200)
           => /\ document_store'[resp'.session_id].status = "uploaded"
              /\ uploads' \notin DOMAIN tasks
              /\ uploads' \in DOMAIN tasks'
              /\ tasks'[uploads'].session_id = resp'.session_id
              /\ tasks'[uploads'].pc = "scheduled"
        /\ \A s \in SessionIds :
               ( /\ StatusOf(document_store', s) = "processing"
                 /\ StatusOf(document_store, s) # "processing" )
               => \E u \in Starting : tasks[u].session_id = s ]_vars

C18_Witness ==
    /\ resp.op = "upload"
    /\ resp.code = 200
    /\ resp.body.status = "processing"
    /\ document_store[resp.session_id].status = "uploaded"
    /\ document_store[resp.session_id].retrieval_chain = Chain(1)
    /\ latest[resp.session_id] = 2
    /\ tasks[2].pc = "scheduled"

\* the entry an accepted upload leaves for a session it created
UploadedSession == [NewSession EXCEPT !.status = "uploaded"]

\* C20: the session table only grows: a step removes no entry; an entry
\* appears only in the step of an accepted upload, a status-check or a
\* question for its identifier, each of which leaves an entry for that
\* identifier, and it starts with status "none" and null pipeline, filename and
\* error (status "uploaded" when an upload created it); an entry that is
\* present is never put back to the default entry.
C20_TableOnlyGrows ==
    [][ /\ Sessions \subseteq DOMAIN document_store'
        /\ \A s \in DOMAIN document_store' \ Sessions :
               /\ resp'.op \in {"upload", "status", "question"}
               /\ resp'.session_id = s
               /\ document_store'[s] =
                      IF IsUploadStep THEN UploadedSession ELSE NewSession
        /\ ( \/ resp'.op \in {"status", "question"}
             \/ IsUploadStep /\ resp'.code = 200 )
           => resp'.session_id \in DOMAIN document_store'
        /\ \A s \in Sessions :
               document_store'[s] = NewSession
               => document_store[s] = NewSession ]_vars

C20_Witness ==
    /\ resp.op = "question"
    /\ resp.code = 400
    /\ document_store[resp.session_id] = NewSession
    /\ \E s \in Sessions :
           /\ document_store[s].status = "completed"
           /\ document_store[s].error = OllamaNotRunning
    /\ tasks = <<>>

----------------------------------------------------------------------------
(* Properties of the UI *)

IsPrefix(a, b) == Len(a) <= Len(b) /\ SubSeq(b, 1, Len(a)) = a

\* C19: the UI's message log is append-only: every step of a script run
\* leaves the messages it found at their positions with their contents, and
\* adds messages only after them.
C19_MessagesAppendOnly ==
    [][IsPrefix(MessagesOf(session_state), MessagesOf(session_state'))]_vars

C19_Witness ==
    /\ script.pc = "idle"
    /\ script.rerun
    /\ Len(MessagesOf(session_state)) >= 4
    /\ MessagesOf(session_state)[1] = OllamaWarning
    /\ \E i \in 2..(Len(MessagesOf(session_state)) - 1) :
           /\ MessagesOf(session_state)[i].role = "user"
           /\ MessagesOf(session_state)[i + 1] = ErrorMessage(<<"generation failed">>)

----------------------------------------------------------------------------
(* Properties of overlapping uploads and of the end of builds *)

\* the background tasks that end in this step
Ending == {u \in DOMAIN tasks : u \notin DOMAIN tasks'}

TasksOf(ts, s) == {u \in DOMAIN ts : ts[u].session_id = s}

\* C22: when the last of a session's builds ends, it is the build of the
\* session's most recently accepted upload, and the session's status, filename
\* and, if completed, pipeline handle are those of that build.  (With one
\* upload at a time the build that ends is the only one; the builds of
\* overlapping uploads are several.)
C22_LastBuildIsLatestUpload ==
    [][\A u \in Ending :
          LET s == tasks[u].session_id
          IN  TasksOf(tasks', s) = {}
              => /\ u = latest[s]
                 /\ document_store'[s].status \in {"completed", "error"}
                 /\ document_store'[s].filename = tasks[u].filename
                 /\ document_store'[s].status = "completed"
                    => document_store'[s].retrieval_chain = Chain(latest[s])]_vars

InProgress(s) == StatusOf(document_store, s) \in {"uploaded", "processing"}

\* C23: every build ends in a final status: no session stays "uploaded" or
\* "processing" forever, and a session that has left "none" never returns to
\* it, so that after every accepted upload the session's status is again and
\* again "completed" or "error".
C23_BuildsEnd ==
    /\ \A s \in SessionIds : []<>(~InProgress(s))
    /\ [][\A s \in SessionIds :
             StatusOf(document_store, s) # "none"
             => StatusOf(document_store', s) # "none"]_vars

C23_Witness ==
    \E s \in Sessions :
        /\ latest[s] = 2
        /\ TasksOf(tasks, s) = {}
        /\ document_store[s].status = "completed"
        /\ document_store[s].retrieval_chain = Chain(2)
        /\ document_store[s].error = StepError("load")

\* C24: the error a status-check reports is non-null when the status it
\* reports is "error" and null when the status it reports is "completed".
C24_ErrorMatchesStatus ==
    resp.op = "status"
    => /\ resp.body.status = "error" => resp.body.error # None
       /\ resp.body.status = "completed" => resp.body.error = None

----------------------------------------------------------------------------
(* Properties of the UI's rerun loop *)

\* the end of a script run: lines 507-512 have run, or st.stop() ended it
RunEnds == script.pc # "idle" /\ script'.pc = "idle"

\* C21: the rerun loop ends.  A run that st.rerun() started gets the widget
\* values of the run before it and no form input, so a run that st.rerun()
\* started and that ends by calling st.rerun() with the session state, the
\* log apart, as it was when the run started, is followed by the same run
\* again for as long as its calls go the same way: the loop ends only if no
\* run ends so.
C21_RerunLoopEnds ==
    [][(RunEnds /\ script.by_rerun /\ script'.rerun)
       => NonLog(session_state') # script.start]_vars

\* the step of lines 427-503 in a run with a submitted question
QuestionSubmitted ==
    script.pc = "form" /\ script'.pc = "end" /\ script.user_input # None

\* C25: at the end of every script run document_processed is true if and only
\* if retrieval_chain is non-null; a question submitted while retrieval_chain
\* is null invokes no pipeline and appends the user message followed by the
\* assistant's reply asking to upload and process a document first.
C25_ProcessedIffChain ==
    [][ /\ RunEnds
           => (session_state'["document_processed"]
                  <=> session_state'["retrieval_chain"] # None)
        /\ (QuestionSubmitted /\ session_state["retrieval_chain"] = None)
           => /\ script'.invoked = <<>>
              /\ MessagesOf(session_state')
                     = MessagesOf(session_state)
                       \o <<Message("user", script.user_input), UploadFirst>> ]_vars

C25_Witness ==
    /\ script.pc = "idle"
    /\ script.user_input # None
    /\ script.invoked = <<>>
    /\ widgets.uploaded_file # None
    /\ ~session_state["document_processed"]
    /\ session_state["retrieval_chain"] = None
    /\ LET log == MessagesOf(session_state)
       IN  /\ Len(log) >= 3
           /\ log[Len(log)] = UploadFirst
           /\ log[Len(log) - 1] = Message("user", script.user_input)
           /\ log[Len(log) - 2] = ErrorMessage(StepError("load"))

====
